---- MODULE Spec2Model ----
(***************************************************************************)
(* Model of dbt-spark-cde's CDE API session                                *)
(* (src/dbt/adapters/spark_cde/cdeapisession.py): CDEApiCursor.execute as  *)
(* a sequential process whose steps are its remote calls, the remote       *)
(* service as the nondeterministic outcome of each call, and               *)
(* CDEApiConnection.parse_query_result / extract_datatypes as operators    *)
(* over lines of characters.                                               *)
(*   Spec        the steps of one cursor's execute                         *)
(*   CursorSpec  execute, fetchone, fetchall and close as whole calls      *)
(*   ParseSpec   parse_query_result on sequences of lines                  *)
(*   ConnSpec    executes of two cursors running at the same time          *)
(***************************************************************************)
EXTENDS Integers, Sequences, FiniteSets, TLC

(***************************************************************************)
(* Bounds of the model (not program constants).                            *)
(***************************************************************************)
\* time.time() of the timers, in whole ticks, ranges over 0..MaxClock
MaxClock == 3
\* a parse_query_result call is given at most MaxLines lines
MaxLines == 5
\* time.time() in milliseconds ranges over 1..MaxTimeMs
MaxTimeMs == 2
\* random.randint(0, 1000) is cut down to 0..MaxRand
MaxRand == 1

(***************************************************************************)
(* Program constants.                                                      *)
(***************************************************************************)
DEFAULT_POLL_WAIT == 30
DEFAULT_CDE_JOB_TIMEOUT == 900

\* CDEApiConnection.JOB_STATUS
JOB_STATUS == [starting |-> "starting", running |-> "running",
               succeeded |-> "succeeded", failed |-> "failed"]

(***************************************************************************)
(* Text: a string is a sequence of one-character strings.                  *)
(***************************************************************************)
\* the characters str.strip() removes
IsSpace(c) == c \in {" ", "\t", "\r", "\n"}

RECURSIVE LStrip(_)
LStrip(s) == IF s # <<>> /\ IsSpace(Head(s)) THEN LStrip(Tail(s)) ELSE s

RECURSIVE RStrip(_)
RStrip(s) ==
    IF s # <<>> /\ IsSpace(s[Len(s)]) THEN RStrip(SubSeq(s, 1, Len(s) - 1)) ELSE s

\* str.strip()
Strip(s) == RStrip(LStrip(s))

\* str.startswith(p)
StartsWith(s, p) == Len(s) >= Len(p) /\ SubSeq(s, 1, Len(p)) = p

\* str.split(d) for a one-character d: always at least one fragment
RECURSIVE SplitFrom(_, _, _)
SplitFrom(s, d, cur) ==
    IF s = <<>> THEN <<cur>>
    ELSE IF Head(s) = d THEN <<cur>> \o SplitFrom(Tail(s), d, <<>>)
    ELSE SplitFrom(Tail(s), d, Append(cur, Head(s)))

Split(s, d) == SplitFrom(s, d, <<>>)

\* list(map(f, filter(keep, xs))) with keep = (strip != "") and f = strip
RECURSIVE StripNonEmpty(_)
StripNonEmpty(frags) ==
    IF frags = <<>> THEN <<>>
    ELSE IF Strip(Head(frags)) # <<>>
         THEN <<Strip(Head(frags))>> \o StripNonEmpty(Tail(frags))
         ELSE StripNonEmpty(Tail(frags))

\* the cells of a table line: split on "|", drop blank fragments, strip
Cells(line) == StripNonEmpty(Split(line, "|"))

\* line.strip().startswith("+-")
IsSeparator(line) == StartsWith(Strip(line), <<"+", "-">>)

(***************************************************************************)
(* extract_datatypes                                                       *)
(***************************************************************************)
Digits == {"0", "1", "2", "3", "4", "5", "6", "7", "8", "9"}

\* the characters str.isnumeric() accepts: the decimal digits and numeric
\* characters float() rejects, of which the model has U+00BD (one half),
\* written "half"
Numerics == Digits \cup {"half"}

\* str.isnumeric(): non-empty, numeric characters only
is_number(x) == x # <<>> /\ \A i \in 1..Len(x) : x[i] \in Numerics

\* the strings of decimal digits
IsDecimal(x) == x # <<>> /\ \A i \in 1..Len(x) : x[i] \in Digits

is_logical(x) ==
    \/ x = <<"t", "r", "u", "e">>
    \/ x = <<"f", "a", "l", "s", "e">>
    \/ x = <<"T", "r", "u", "e">>
    \/ x = <<"F", "a", "l", "s", "e">>

is_true(x) == x = <<"t", "r", "u", "e">> \/ x = <<"T", "r", "u", "e">>

get_type(col_data) ==
    IF is_number(col_data) THEN "number"
    ELSE IF is_logical(col_data) THEN "boolean"
    ELSE "string"

\* float(x) succeeds: digits with an optional sign (the cells of the model
\* hold no ".", exponent, "inf" or "nan")
FloatParses(x) ==
    \/ IsDecimal(x)
    \/ Len(x) >= 2 /\ x[1] \in {"-", "+"} /\ IsDecimal(Tail(x))

RECURSIVE DropLeadingZeros(_)
DropLeadingZeros(x) ==
    IF Len(x) > 1 /\ Head(x) = "0" THEN DropLeadingZeros(Tail(x)) ELSE x

\* repr(float(x)) for an x that FloatParses accepts: "007" -> 7.0, "-1" -> -1.0
FloatRepr(x) ==
    LET signed == x[1] \in {"-", "+"}
        mag == DropLeadingZeros(IF signed THEN Tail(x) ELSE x)
        neg == x[1] = "-"
    IN (IF neg THEN <<"-">> ELSE <<>>) \o mag \o <<".", "0">>

\* a value of a row: t is its Python type, v its printed form
StrVal(x) == [t |-> "str", v |-> x]
FloatVal(x) == [t |-> "float", v |-> FloatRepr(x)]
BoolVal(b) == [t |-> "bool", v |-> IF b THEN <<"True">> ELSE <<"False">>]

\* convert_map[col_type](col) raises: only float() of a non-number can
ConvertRaises(col_type, col) == col_type = "number" /\ ~FloatParses(col.v)

\* convert_map[col_type](col)
convert(col_type, col) ==
    IF col_type = "number" THEN FloatVal(col.v)
    ELSE IF col_type = "boolean" THEN BoolVal(is_true(col.v))
    ELSE col

\* convert_type(row, col_types): the index of the first cell at which it
\* raises (col_types[idx] out of range, or the conversion), 0 when it does not
FirstBad(row, col_types) ==
    LET bad == {i \in 1..Len(row) :
                   i > Len(col_types) \/ ConvertRaises(col_types[i], row[i])}
    IN IF bad = {} THEN 0 ELSE CHOOSE i \in bad : \A j \in bad : i <= j

\* the row after convert_type has converted its cells 1..upto in place
ConvertedUpTo(row, col_types, upto) ==
    [i \in 1..Len(row) |-> IF i <= upto THEN convert(col_types[i], row[i]) ELSE row[i]]

\* what convert_type leaves in the row, whether it returns or raises
convert_type(row, col_types) ==
    LET b == FirstBad(row, col_types)
    IN ConvertedUpTo(row, col_types, IF b = 0 THEN Len(row) ELSE b - 1)

\* the index of the first row whose convert_type raises, 0 when none does
FirstBadRow(rows, col_types) ==
    LET bad == {r \in 1..Len(rows) : FirstBad(rows[r], col_types) # 0}
    IN IF bad = {} THEN 0 ELSE CHOOSE r \in bad : \A q \in bad : r <= q

\* extract_datatypes(schema, rows) with rows # []. The rows are converted in
\* place, so a raise part-way leaves the rows before it converted and the
\* schema untyped: raised tells which.
extract_datatypes(schema, rows) ==
    LET first_row == rows[1]
        col_types == [i \in 1..Len(first_row) |-> get_type(first_row[i].v)]
        badRow == FirstBadRow(rows, col_types)
    IN IF Len(schema) # Len(first_row)
       THEN [schema |-> schema, rows |-> rows, raised |-> FALSE]
       ELSE IF badRow = 0
       THEN [schema |-> [i \in 1..Len(schema) |->
                            [schema[i] EXCEPT !.type = col_types[i]]],
             rows |-> [r \in 1..Len(rows) |-> convert_type(rows[r], col_types)],
             raised |-> FALSE]
       ELSE [schema |-> schema,
             rows |-> [r \in 1..Len(rows) |->
                          IF r <= badRow THEN convert_type(rows[r], col_types)
                          ELSE rows[r]],
             raised |-> TRUE]

(***************************************************************************)
(* parse_query_result                                                      *)
(***************************************************************************)
\* line_number after the first loop: the 1-based position of the first
\* separator line, len(res_lines) when there is none
FirstSeparatorOrZero(res_lines) ==
    LET seps == {i \in 1..Len(res_lines) : IsSeparator(res_lines[i])}
    IN IF seps = {} THEN 0
       ELSE CHOOSE i \in seps : \A j \in seps : i <= j

FirstSeparator(res_lines) ==
    LET seps == {i \in 1..Len(res_lines) : IsSeparator(res_lines[i])}
    IN IF seps = {} THEN Len(res_lines)
       ELSE CHOOSE i \in seps : \A j \in seps : i <= j

\* the header's columns, each provisionally a string
HeaderSchema(line) ==
    LET names == Cells(line)
    IN [i \in 1..Len(names) |->
           [name |-> names[i], type |-> "string", nullable |-> FALSE]]

\* the rows of res_lines[from..] up to the first separator line
RECURSIVE DataRows(_, _)
DataRows(res_lines, from) ==
    IF from > Len(res_lines) \/ IsSeparator(res_lines[from]) THEN <<>>
    ELSE LET cells == Cells(Strip(res_lines[from]))
         IN <<[i \in 1..Len(cells) |-> StrVal(cells[i])]>>
            \o DataRows(res_lines, from + 1)

parse_query_result(res_lines) ==
    LET line_number == FirstSeparator(res_lines)
        empty == [schema |-> <<>>, rows |-> <<>>]
    IN IF line_number = Len(res_lines) THEN empty
       ELSE LET schema == HeaderSchema(res_lines[line_number + 1])
                rows == DataRows(res_lines, line_number + 3)
            IN IF Len(schema) = 0 THEN empty
               ELSE IF Len(rows) > 0
               THEN LET typed == extract_datatypes(schema, rows)
                    IN [schema |-> typed.schema, rows |-> typed.rows]
               ELSE [schema |-> schema, rows |-> rows]

\* res.text.split("\n"), each line stripped
ResLines(text) ==
    LET parts == Split(text, "\n")
    IN [i \in 1..Len(parts) |-> Strip(parts[i])]

(***************************************************************************)
(* The remote service, as the cursor sees it.                              *)
(***************************************************************************)
\* what a requests call can do: return a 2xx response, return a response
\* with an error status (requests does not raise on it), or raise
CallOutcomes == {"ok", "http_error", "net_error"}

\* join lines with "\n"
RECURSIVE Join(_)
Join(lines) ==
    IF lines = <<>> THEN <<>>
    ELSE IF Len(lines) = 1 THEN lines[1]
    ELSE lines[1] \o <<"\n">> \o Join(Tail(lines))

\* driver stdout without a table (also the body of an error response)
LogNoTable == Join(<< <<"o", "o", "p", "s">> >>)
\* a table A|B with the row 1|true
LogOneRow ==
    Join(<< <<"+", "-", "+", "-", "+">>,
            <<"|", "A", "|", "B", "|">>,
            <<"+", "-", "+", "-", "+">>,
            <<"|", "0", "1", "|", "t", "r", "u", "e", "|">>,
            <<"+", "-", "+", "-", "+">>,
            <<>> >>)
\* a table with a header and no rows
LogNoRows ==
    Join(<< <<"+", "-", "+">>,
            <<"|", " ", "A", " ", "|">>,
            <<"+", "-", "+">>,
            <<"+", "-", "+">>,
            <<>> >>)
\* a table whose second row does not convert to the type of the first
LogBadLater ==
    Join(<< <<"+", "-", "+">>,
            <<"|", "A", "|">>,
            <<"+", "-", "+">>,
            <<"|", "1", "|">>,
            <<"|", "x", "|">>,
            <<"+", "-", "+">> >>)

\* a table A|B whose rows are a line with a blank cell and a line that is
\* not of the table
LogRagged ==
    Join(<< <<"+", "-", "+", "-", "+">>,
            <<"|", "A", "|", "B", "|">>,
            <<"+", "-", "+", "-", "+">>,
            <<"|", "1", "|", " ", "|">>,
            <<"o", "o", "p", "s">>,
            <<"+", "-", "+", "-", "+">> >>)

\* the stdout texts the log endpoint answers with
Logs == {LogNoTable, LogOneRow, LogNoRows, LogBadLater, LogRagged}

JobNames == [time_ms : 1..MaxTimeMs, rand : 0..MaxRand]
NoJobName == [time_ms |-> 0, rand |-> 0]
NoFile == [job_name |-> NoJobName, time_ms |-> 0, ext |-> "none"]
\* the ids the service gives a run ("id" of the run_job response)
RunIds == {1}
\* run_job(...).json(): has_id is whether the body has the key "id"
NoJob == [has_id |-> FALSE, id |-> 0]
\* get_job_run_status(...).json()
NoStatus == [id |-> 0, status |-> "none"]

Terminal == {JOB_STATUS.succeeded, JOB_STATUS.failed}

\* the values of "status" in a status payload
Statuses == {JOB_STATUS.starting, JOB_STATUS.running,
             JOB_STATUS.succeeded, JOB_STATUS.failed}

(***************************************************************************)
(* State.                                                                  *)
(***************************************************************************)
VARIABLES
    pc,             \* where execute stands; "idle" between calls
    _schema,        \* CDEApiCursor._schema: [st, v], st = "unset" until set
    _rows,          \* CDEApiCursor._rows
    job_name,       \* locals of execute
    sql_resource,
    py_resource,
    job,
    job_status,
    total_time_spent_in_get_job_status,
    calls,          \* the remote calls of this execute, in order
    sleeps,         \* time.sleep(DEFAULT_POLL_WAIT) calls of this execute
    result,         \* how the last execute ended
    terminal,       \* the terminal state this execute reached
    seen,           \* what its status fetches have returned
    log_text,       \* the text of its last log fetch
    populated,      \* this execute has assigned _rows and _schema
    last_outcome,   \* what the last remote call of this execute did
    job_spec,       \* params of submit_job: the job spec it posts
    ret,            \* what the last call on the cursor returned
    stored,         \* the rows the last populating execute assigned
    fetched,        \* the rows fetchone has returned since then, in order
    res_lines,      \* the argument of a parse_query_result call
    parsed,         \* what that call returned
    running,        \* per cursor of a connection: its execute in progress
    resources,      \* the resource namespaces that exist on the service
    described,      \* what the last read of description returned
    _timers,        \* AdapterTimer._timers, the registry
    now,            \* what time.time() returned last
    timer_ret       \* what the last start_timer / end_timer returned

vars == <<pc, _schema, _rows, job_name, sql_resource, py_resource, job,
          job_status, total_time_spent_in_get_job_status, calls, sleeps,
          result, terminal, seen, log_text, populated, last_outcome,
          job_spec, ret, stored, fetched, res_lines, parsed, running,
          resources, described, _timers, now, timer_ret>>

(***************************************************************************)
(* Helpers of execute.                                                     *)
(***************************************************************************)
\* generate_job_name(): "dbt-job-<time_ms>-<rand, zero-padded>"
generate_job_name(time_ms, rand) == [time_ms |-> time_ms, rand |-> rand]

\* CDEApiHelper.generate_sql_resource: file_name is <job_name>-<time_ms>.sql
generate_sql_resource(name, time_ms) ==
    [file_name |-> [job_name |-> name, time_ms |-> time_ms, ext |-> "sql"],
     job_name |-> name]

\* CDEApiHelper.get_python_wrapper_resource: <job_name>-<time_ms>.py. Of
\* the script (file_obj) the model keeps the path it opens,
\* '/app/mount/' + sql_resource["file_name"]
get_python_wrapper_resource(sql_res, time_ms) ==
    [file_name |-> [job_name |-> sql_res.job_name, time_ms |-> time_ms,
                    ext |-> "py"],
     job_name |-> sql_res.job_name,
     opens |-> [dir |-> "/app/mount/", file_name |-> sql_res.file_name]]

NoResource == [file_name |-> NoFile, job_name |-> NoJobName]
NoPyResource == [file_name |-> NoFile, job_name |-> NoJobName,
                 opens |-> [dir |-> "", file_name |-> NoFile]]

\* CDEApiConnection.submit_job: the params it posts to /jobs
submit_jobSwapped(name, resource_name, sql_res, py_res) ==
    [name |-> name,
     mounts |-> <<[dirPrefix |-> "/", resourceName |-> resource_name]>>,
     type |-> "spark",
     spark |-> [file |-> sql_res.file_name, files |-> <<py_res.file_name>>]]

submit_job(name, resource_name, sql_res, py_res) ==
    [name |-> name,
     mounts |-> <<[dirPrefix |-> "/", resourceName |-> resource_name]>>,
     type |-> "spark",
     spark |-> [file |-> py_res.file_name, files |-> <<sql_res.file_name>>]]

NoJobSpec == [name |-> NoJobName, mounts |-> <<>>, type |-> "none",
              spark |-> [file |-> NoFile, files |-> <<>>]]

\* one remote call: the operation, the job / resource name, the file
Call(op, name, file) == [op |-> op, name |-> name, file |-> file]

NoResult == [kind |-> "none", status |-> NoStatus, timeout |-> 0]
Returned == [kind |-> "returned", status |-> NoStatus, timeout |-> 0]
\* an exception leaving execute
Raised(kind) == [kind |-> kind, status |-> NoStatus, timeout |-> 0]
\* raise_database_error("Error while executing query: " + repr(job_status))
DatabaseError(status) == [kind |-> "DatabaseError", status |-> status, timeout |-> 0]
\* RPCTimeoutException(DEFAULT_CDE_JOB_TIMEOUT)
RPCTimeoutException(timeout) ==
    [kind |-> "RPCTimeoutException", status |-> NoStatus, timeout |-> timeout]

\* the order of the calls before the polling loop: the step after each
AfterStepSwapped(step) ==
    CASE step = "create_resource" -> "upload_py"
      [] step = "upload_py" -> "upload_sql"
      [] step = "upload_sql" -> "submit_job"
      [] step = "submit_job" -> "run_job"
      [] step = "run_job" -> "first_status"

AfterStep(step) ==
    CASE step = "create_resource" -> "upload_sql"
      [] step = "upload_sql" -> "upload_py"
      [] step = "upload_py" -> "submit_job"
      [] step = "submit_job" -> "run_job"
      [] step = "run_job" -> "first_status"

\* if total_time_spent_in_get_job_status >= DEFAULT_CDE_JOB_TIMEOUT
TimedOutStrict(total) == total > DEFAULT_CDE_JOB_TIMEOUT

TimedOut(total) == total >= DEFAULT_CDE_JOB_TIMEOUT

\* while job_status["status"] != JOB_STATUS["succeeded"]
LoopContinuesWhileStarting(status) == status = JOB_STATUS.starting

LoopContinues(status) == status # JOB_STATUS.succeeded

\* if job_status["status"] == JOB_STATUS["failed"]
IsFailed(status) == status = JOB_STATUS.failed

Cursor(v) == [st |-> "list", v |-> v]
Unset == [st |-> "unset", v |-> <<>>]
\* the attribute holds None
None == [st |-> "None", v |-> <<>>]

\* the return value of a cursor call: v is a list of rows (the one row of a
\* fetchone), kind tells a list from None and from a raised AttributeError
NoRet == [op |-> "none", kind |-> "none", v |-> <<>>]
Ret(op, kind, v) == [op |-> op, kind |-> kind, v |-> v]

\* description has not been read
NotDescribed == [kind |-> "none", v |-> <<>>]

\* a timer of the registry; time.time() is counted in whole ticks
Timer(name, start_time, end_time, elapsed_time) ==
    [name |-> name, start_time |-> start_time, end_time |-> end_time,
     elapsed_time |-> elapsed_time]
NoTimer == Timer("", 0, 0, 0)
\* the return value of a timer call: the timer (start_timer), the elapsed
\* time or None (end_timer)
NoTimerRet == [op |-> "none", name |-> "", kind |-> "none",
               timer |-> NoTimer, elapsed |-> 0]

\* no parse_query_result call has returned
NotParsed == [done |-> FALSE, schema |-> <<>>, rows |-> <<>>]

\* the cursors of one connection that execute at the same time
Cursors == {1, 2}
NoExecution == [pc |-> "idle", job_name |-> NoJobName]

\* get_job_output(job_name, job): the (schema, rows) parsed from the text
get_job_output(text) == parse_query_result(ResLines(text))

(***************************************************************************)
(* Init: a cursor from CDEApiConnection.cursor(). The one-argument         *)
(* __init__ is the one in force and assigns neither _schema nor _rows.     *)
(***************************************************************************)
Fresh ==
    /\ pc = "idle"
    /\ _schema = Unset
    /\ _rows = Unset
    /\ job_name = NoJobName
    /\ sql_resource = NoResource
    /\ py_resource = NoPyResource
    /\ job = NoJob
    /\ job_status = NoStatus
    /\ total_time_spent_in_get_job_status = 0
    /\ calls = <<>>
    /\ sleeps = 0
    /\ result = NoResult
    /\ terminal = "none"
    /\ seen = [failed |-> FALSE, succeeded |-> FALSE, at |-> 0]
    /\ log_text = <<>>
    /\ populated = FALSE
    /\ last_outcome = "none"
    /\ job_spec = NoJobSpec
    /\ ret = NoRet
    /\ stored = <<>>
    /\ fetched = <<>>
    /\ parsed = NotParsed
    /\ running = [c \in Cursors |-> NoExecution]
    /\ resources = {}
    /\ described = NotDescribed
    /\ _timers = <<>>
    /\ now = 0
    /\ timer_ret = NoTimerRet

Init == Fresh /\ res_lines = <<>>

cursorVars == <<_schema, _rows>>
localVars == <<job_name, sql_resource, py_resource, job, job_status,
               total_time_spent_in_get_job_status, sleeps, terminal, seen,
               log_text, populated, job_spec>>
\* what a fetch leaves behind
fetchVars == <<ret, stored, fetched>>
\* the state of a direct parse_query_result call
parseVars == <<res_lines, parsed>>
\* the executes of the connection's cursors, and the service's namespaces
connVars == <<running, resources>>
\* the timer registry and its clock
timerVars == <<_timers, now, timer_ret>>
\* what no step of this cursor's execute after its first touches
frameVars == <<fetchVars, parseVars, connVars, timerVars, described>>

\* the call just appended to calls did o
NoteOutcome(o) == last_outcome' = o

\* an exception leaves execute
Raise(err) == pc' = "idle" /\ result' = err

(***************************************************************************)
(* execute, lines 102-114: bind the parameters, generate the job name.     *)
(* sql % parameters raises TypeError when they do not fit the SQL text.    *)
(***************************************************************************)
Execute ==
    /\ pc = "idle"
    /\ \E binding \in {"none", "fits", "mismatch"},
          time_ms \in 1..MaxTimeMs, rand \in 0..MaxRand :
         /\ calls' = <<>>
         /\ sleeps' = 0
         /\ terminal' = "none"
         /\ seen' = [failed |-> FALSE, succeeded |-> FALSE, at |-> 0]
         /\ log_text' = <<>>
         /\ populated' = FALSE
         /\ last_outcome' = "none"
         /\ job_spec' = NoJobSpec
         /\ ret' = NoRet
         /\ job' = NoJob
         /\ job_status' = NoStatus
         /\ total_time_spent_in_get_job_status' = 0
         /\ sql_resource' = NoResource
         /\ py_resource' = NoPyResource
         /\ IF binding = "mismatch"
            THEN /\ Raise(Raised("TypeError"))
                 /\ job_name' = NoJobName
            ELSE /\ pc' = "create_resource"
                 /\ result' = NoResult
                 /\ job_name' = generate_job_name(time_ms, rand)
    /\ UNCHANGED <<cursorVars, stored, fetched, parseVars, connVars, timerVars, described>>

(***************************************************************************)
(* 1. create resource; then the two resources are built (lines 116-123).   *)
(***************************************************************************)
CreateResource ==
    /\ pc = "create_resource"
    /\ calls' = Append(calls, Call("create_resource", job_name, NoFile))
    /\ \E o \in CallOutcomes,
          t_sql \in job_name.time_ms..MaxTimeMs :
         \E t_py \in t_sql..MaxTimeMs :
            /\ NoteOutcome(o)
            /\ IF o = "net_error"
               THEN /\ Raise(Raised("TransportError"))
                    /\ UNCHANGED <<sql_resource, py_resource>>
               ELSE /\ pc' = AfterStep("create_resource")
                    /\ sql_resource' = generate_sql_resource(job_name, t_sql)
                    /\ py_resource' =
                           get_python_wrapper_resource(sql_resource', t_py)
                    /\ UNCHANGED result
    /\ UNCHANGED <<cursorVars, frameVars, job_spec,
                   job_name, job, job_status,
                   total_time_spent_in_get_job_status, sleeps, terminal,
                   seen, log_text, populated>>

\* a step that is one remote call whose response execute does not read
SimpleCall(step, call) ==
    /\ pc = step
    /\ calls' = Append(calls, call)
    /\ \E o \in CallOutcomes :
         /\ NoteOutcome(o)
         /\ IF o = "net_error"
            THEN Raise(Raised("TransportError"))
            ELSE pc' = AfterStep(step) /\ UNCHANGED result
    /\ UNCHANGED <<cursorVars, frameVars, localVars>>

\* 2. upload the resources (lines 129, 140)
UploadSql ==
    SimpleCall("upload_sql",
               Call("upload_resource", job_name, sql_resource.file_name))

UploadPy ==
    SimpleCall("upload_py",
               Call("upload_resource", job_name, py_resource.file_name))

\* 3. submit the job (line 149): job name and resource name are job_name
SubmitJob ==
    /\ pc = "submit_job"
    /\ calls' = Append(calls, Call("submit_job", job_name, NoFile))
    /\ job_spec' = submit_job(job_name, job_name, sql_resource, py_resource)
    /\ \E o \in CallOutcomes :
         /\ NoteOutcome(o)
         /\ IF o = "net_error"
            THEN Raise(Raised("TransportError"))
            ELSE pc' = AfterStep("submit_job") /\ UNCHANGED result
    /\ UNCHANGED <<cursorVars, frameVars, job_name, sql_resource, py_resource,
                   job, job_status, total_time_spent_in_get_job_status,
                   sleeps, terminal, seen, log_text, populated>>

(***************************************************************************)
(* 4. run the job (line 154): run_job(job_name).json(). The body of an     *)
(* error response is not JSON (json() raises) or is JSON without "id".     *)
(***************************************************************************)
RunJob ==
    /\ pc = "run_job"
    /\ calls' = Append(calls, Call("run_job", job_name, NoFile))
    /\ \E o \in CallOutcomes, id \in RunIds, is_json \in BOOLEAN :
         /\ NoteOutcome(o)
         /\ IF o = "net_error"
            THEN Raise(Raised("TransportError")) /\ UNCHANGED job
            ELSE IF o = "http_error" /\ ~is_json
            THEN Raise(Raised("JSONDecodeError")) /\ UNCHANGED job
            ELSE /\ pc' = AfterStep("run_job")
                 /\ job' = IF o = "ok" THEN [has_id |-> TRUE, id |-> id]
                           ELSE NoJob
                 /\ UNCHANGED result
    /\ UNCHANGED <<cursorVars, frameVars, job_spec,
                   job_name, sql_resource, py_resource, job_status,
                   total_time_spent_in_get_job_status, sleeps, terminal,
                   seen, log_text, populated>>

(***************************************************************************)
(* get_job_run_status(job).json() and the read of job_status["status"]     *)
(* (lines 160-162, 175-177). job["id"] raises KeyError before any request  *)
(* when the run response had no id; an error response has no "status".     *)
(* Fetched(s) is what the rest of the step does with the status s.         *)
(***************************************************************************)
Seen(s) ==
    IF s \in Terminal /\ ~seen.failed /\ ~seen.succeeded
    THEN [failed |-> s = JOB_STATUS.failed,
          succeeded |-> s = JOB_STATUS.succeeded,
          at |-> total_time_spent_in_get_job_status]
    ELSE [seen EXCEPT !.failed = @ \/ s = JOB_STATUS.failed,
                      !.succeeded = @ \/ s = JOB_STATUS.succeeded]

\* lines 157-164, then the loop test of line 166
FirstStatus ==
    /\ pc = "first_status"
    /\ IF ~job.has_id
       THEN /\ Raise(Raised("KeyError"))
            /\ UNCHANGED <<calls, job_status, seen, terminal, last_outcome>>
       ELSE /\ calls' = Append(calls, Call("get_job_run_status", job_name, NoFile))
            /\ \E o \in CallOutcomes, s \in Statuses :
                 /\ NoteOutcome(o)
                 /\ IF o = "net_error"
                    THEN /\ Raise(Raised("TransportError"))
                         /\ UNCHANGED <<job_status, seen, terminal>>
                    ELSE IF o = "http_error"
                    THEN /\ Raise(Raised("KeyError"))
                         /\ UNCHANGED <<job_status, seen, terminal>>
                    ELSE /\ job_status' = [id |-> job.id, status |-> s]
                         /\ seen' = Seen(s)
                         /\ UNCHANGED result
                         /\ IF LoopContinues(s)
                            THEN pc' = "sleep" /\ UNCHANGED terminal
                            ELSE /\ pc' = "get_job_output"
                                 /\ terminal' = "succeeded"
    /\ UNCHANGED <<cursorVars, frameVars, job_spec,
                   job_name, sql_resource, py_resource, job,
                   total_time_spent_in_get_job_status, sleeps, log_text,
                   populated>>

\* lines 167-172: the poll sleep
Sleep ==
    /\ pc = "sleep"
    /\ total_time_spent_in_get_job_status' =
           total_time_spent_in_get_job_status + DEFAULT_POLL_WAIT
    /\ sleeps' = sleeps + 1
    /\ pc' = "poll"
    /\ UNCHANGED <<cursorVars, frameVars, job_spec,
                   job_name, sql_resource, py_resource, job,
                   job_status, calls, result, terminal, seen, log_text,
                   populated, last_outcome>>

\* lines 174-201, then the loop test of line 166
Poll ==
    /\ pc = "poll"
    /\ calls' = Append(calls, Call("get_job_run_status", job_name, NoFile))
    /\ \E o \in CallOutcomes, s \in Statuses :
         /\ NoteOutcome(o)
         /\ IF o = "net_error"
            THEN /\ Raise(Raised("TransportError"))
                 /\ UNCHANGED <<job_status, seen, terminal>>
            ELSE IF o = "http_error"
            THEN /\ Raise(Raised("KeyError"))
                 /\ UNCHANGED <<job_status, seen, terminal>>
            ELSE /\ job_status' = [id |-> job.id, status |-> s]
                 /\ seen' = Seen(s)
                 /\ IF IsFailed(s)
                    THEN /\ pc' = "failed_job_output"
                         /\ terminal' = "failed"
                         /\ UNCHANGED result
                    ELSE IF TimedOut(total_time_spent_in_get_job_status)
                    THEN /\ Raise(RPCTimeoutException(DEFAULT_CDE_JOB_TIMEOUT))
                         /\ terminal' = "timed_out"
                    ELSE IF LoopContinues(s)
                    THEN pc' = "sleep" /\ UNCHANGED <<result, terminal>>
                    ELSE /\ pc' = "get_job_output"
                         /\ terminal' = "succeeded"
                         /\ UNCHANGED result
    /\ UNCHANGED <<cursorVars, frameVars, job_spec,
                   job_name, sql_resource, py_resource, job,
                   total_time_spent_in_get_job_status, sleeps, log_text,
                   populated>>

\* the text of the log response: a stdout text, or an error body
LogTexts(o) == IF o = "ok" THEN Logs ELSE {LogNoTable}

\* lines 183-193: the diagnostic log fetch of a failed job, then the raise
FailedJobOutput ==
    /\ pc = "failed_job_output"
    /\ calls' = Append(calls, Call("get_job_output", job_name, NoFile))
    /\ \E o \in CallOutcomes :
         /\ NoteOutcome(o)
         /\ IF o = "net_error"
            THEN Raise(Raised("TransportError")) /\ UNCHANGED log_text
            ELSE \E text \in LogTexts(o) :
                    /\ log_text' = text
                    /\ Raise(DatabaseError(job_status))
    /\ UNCHANGED <<cursorVars, frameVars, job_spec,
                   job_name, sql_resource, py_resource, job,
                   job_status, total_time_spent_in_get_job_status, sleeps,
                   terminal, seen, populated>>

\* 6. fetch and populate the results (lines 203-209)
GetJobOutput ==
    /\ pc = "get_job_output"
    /\ calls' = Append(calls, Call("get_job_output", job_name, NoFile))
    /\ \E o \in CallOutcomes :
         /\ NoteOutcome(o)
         /\ IF o = "net_error"
            THEN /\ Raise(Raised("TransportError"))
                 /\ UNCHANGED <<log_text, cursorVars, populated, stored,
                                fetched>>
            ELSE \E text \in LogTexts(o) :
                    /\ log_text' = text
                    /\ populated' = TRUE
                    /\ _rows' = Cursor(get_job_output(text).rows)
                    /\ _schema' = Cursor(get_job_output(text).schema)
                    /\ stored' = get_job_output(text).rows
                    /\ fetched' = <<>>
                    /\ pc' = "delete_job"
                    /\ UNCHANGED result
    /\ UNCHANGED <<job_name, sql_resource, py_resource, job, job_status,
                   total_time_spent_in_get_job_status, sleeps, terminal, seen,
                   job_spec, ret, parseVars, connVars, timerVars, described>>

\* 7. cleanup resources (lines 211-217)
DeleteJob ==
    /\ pc = "delete_job"
    /\ calls' = Append(calls, Call("delete_job", job_name, NoFile))
    /\ \E o \in CallOutcomes :
         /\ NoteOutcome(o)
         /\ IF o = "net_error"
            THEN Raise(Raised("TransportError"))
            ELSE pc' = "delete_resource" /\ UNCHANGED result
    /\ UNCHANGED <<cursorVars, frameVars, localVars>>

DeleteResource ==
    /\ pc = "delete_resource"
    /\ calls' = Append(calls, Call("delete_resource", job_name, NoFile))
    /\ \E o \in CallOutcomes :
         /\ NoteOutcome(o)
         /\ IF o = "net_error"
            THEN Raise(Raised("TransportError"))
            ELSE Raise(Returned)
    /\ UNCHANGED <<cursorVars, frameVars, localVars>>

Next ==
    \/ Execute
    \/ CreateResource
    \/ UploadSql
    \/ UploadPy
    \/ SubmitJob
    \/ RunJob
    \/ FirstStatus
    \/ Sleep
    \/ Poll
    \/ FailedJobOutput
    \/ GetJobOutput
    \/ DeleteJob
    \/ DeleteResource

Spec == Init /\ [][Next]_vars

(***************************************************************************)
(* The cursor as its caller drives it: execute, fetchone, fetchall and     *)
(* close, each call one step. ExecuteCall is the whole of execute (lines   *)
(* 102-217): it raises before line 208 and leaves the cursor alone, or it  *)
(* assigns _rows and _schema from one log text and then returns, or raises *)
(* from the cleanup calls.                                                 *)
(***************************************************************************)
\* the exceptions execute raises before it has fetched the output
ExecuteErrors ==
    {Raised("TypeError"), Raised("TransportError"), Raised("JSONDecodeError"),
     Raised("KeyError"), RPCTimeoutException(DEFAULT_CDE_JOB_TIMEOUT)}
    \cup {DatabaseError([id |-> id, status |-> JOB_STATUS.failed]) :
             id \in RunIds}

executeVars == <<pc, job_name, sql_resource, py_resource, job, job_status,
                 total_time_spent_in_get_job_status, calls, sleeps, terminal,
                 seen, last_outcome, job_spec>>

ExecuteCall ==
    /\ pc = "idle"
    /\ ret' = NoRet
    /\ \/ \E err \in ExecuteErrors :
            /\ result' = err
            /\ populated' = FALSE
            /\ log_text' = <<>>
            /\ UNCHANGED <<cursorVars, stored, fetched>>
       \/ \E o \in {"ok", "http_error"} :
            \E text \in LogTexts(o),
               end \in {Returned, Raised("TransportError")} :
                 /\ log_text' = text
                 /\ populated' = TRUE
                 /\ _rows' = Cursor(get_job_output(text).rows)
                 /\ _schema' = Cursor(get_job_output(text).schema)
                 /\ stored' = get_job_output(text).rows
                 /\ fetched' = <<>>
                 /\ result' = end
    /\ UNCHANGED <<executeVars, parseVars, connVars, timerVars, described>>

\* self._rows.pop(0): the row it returns and the list it leaves
PopLast(rows) ==
    [row |-> rows[Len(rows)], rest |-> SubSeq(rows, 1, Len(rows) - 1)]

PopFirst(rows) == [row |-> Head(rows), rest |-> Tail(rows)]

\* fetchone (lines 244-250). On a cursor that never executed, self._rows
\* is no attribute and the read raises AttributeError.
FetchOne ==
    /\ pc = "idle"
    /\ IF _rows.st = "unset"
       THEN /\ ret' = Ret("fetchone", "AttributeError", <<>>)
            /\ UNCHANGED <<_rows, fetched>>
       ELSE IF _rows.st = "list" /\ Len(_rows.v) > 0
       THEN /\ ret' = Ret("fetchone", "row", <<PopFirst(_rows.v).row>>)
            /\ _rows' = Cursor(PopFirst(_rows.v).rest)
            /\ fetched' = Append(fetched, PopFirst(_rows.v).row)
       ELSE /\ ret' = Ret("fetchone", "None", <<>>)
            /\ UNCHANGED <<_rows, fetched>>
    /\ UNCHANGED <<_schema, stored, result, log_text, populated, executeVars,
                   parseVars, connVars, timerVars, described>>

\* return self._rows
fetchallSkipsFirst(rows) ==
    IF rows.st = "unset" THEN Ret("fetchall", "AttributeError", <<>>)
    ELSE IF rows.st = "None" THEN Ret("fetchall", "None", <<>>)
    ELSE Ret("fetchall", "list", IF rows.v = <<>> THEN <<>> ELSE Tail(rows.v))

fetchall(rows) ==
    IF rows.st = "unset" THEN Ret("fetchall", "AttributeError", <<>>)
    ELSE IF rows.st = "None" THEN Ret("fetchall", "None", <<>>)
    ELSE Ret("fetchall", "list", rows.v)

\* fetchall (lines 241-242)
FetchAll ==
    /\ pc = "idle"
    /\ ret' = fetchall(_rows)
    /\ UNCHANGED <<cursorVars, stored, fetched, result, log_text, populated,
                   executeVars, parseVars, connVars, timerVars, described>>

\* close (lines 89-90): self._rows = None
Close ==
    /\ pc = "idle"
    /\ _rows' = None
    /\ ret' = Ret("close", "None", <<>>)
    /\ UNCHANGED <<_schema, stored, fetched, result, log_text, populated,
                   executeVars, parseVars, connVars, timerVars, described>>

\* the property description (lines 68-87). On a cursor that never
\* executed, self._schema is no attribute and the read raises
\* AttributeError.
description(schema) ==
    IF schema.st = "unset" THEN [kind |-> "AttributeError", v |-> <<>>]
    ELSE IF schema.st = "None" THEN [kind |-> "list", v |-> <<>>]
    ELSE [kind |-> "list",
          v |-> [i \in 1..Len(schema.v) |->
                    <<schema.v[i].name, schema.v[i].type, "None", "None",
                      "None", "None", schema.v[i].nullable>>]]

Description ==
    /\ pc = "idle"
    /\ described' = description(_schema)
    /\ ret' = Ret("description", description(_schema).kind, <<>>)
    /\ UNCHANGED <<cursorVars, stored, fetched, result, log_text, populated,
                   executeVars, parseVars, connVars, timerVars>>

CursorNext ==
    \/ ExecuteCall
    \/ FetchOne
    \/ FetchAll
    \/ Close
    \/ Description

CursorSpec == Init /\ [][CursorNext]_vars

(***************************************************************************)
(* parse_query_result called on its own: any sequence of at most MaxLines  *)
(* lines, each one of LineChoices.                                         *)
(***************************************************************************)
SeparatorLine == <<"+", "-", "+">>
HeaderABC == <<"|", "A", "|", "B", "|", "C", "|">>
Row1TrueX == <<"|", "1", "|", "t", "r", "u", "e", "|", "x", "|">>

\* the lines of the inputs: separators (one not yet stripped), headers and
\* data lines of one and three cells, a blank line, a line without cells
LineChoices ==
    {SeparatorLine,
     <<" ", "+", "-">>,
     HeaderABC,
     Row1TrueX,
     <<"|", " ", "A", " ", "|">>,
     <<"|", "7", "|">>,
     <<"|", "T", "R", "U", "E", "|">>,
     <<"|", "half", "|">>,
     <<>>,
     <<"o", "o", "p", "s">>}

LineSeqs == UNION {[1..n -> LineChoices] : n \in 0..MaxLines}

ParseInit == Fresh /\ res_lines \in LineSeqs

\* schema, rows = self.parse_query_result(res_lines)
ParseQueryResult ==
    /\ ~parsed.done
    /\ parsed' = [done |-> TRUE,
                  schema |-> parse_query_result(res_lines).schema,
                  rows |-> parse_query_result(res_lines).rows]
    /\ UNCHANGED <<cursorVars, localVars, pc, calls, result, last_outcome,
                   fetchVars, res_lines, connVars, timerVars, described>>

ParseSpec == ParseInit /\ [][ParseQueryResult]_vars

(***************************************************************************)
(* Executes on independent cursors of one connection, running at the same  *)
(* time. Of each execute the model keeps its job name and what it does to  *)
(* the service's resource namespaces: it creates the namespace job_name    *)
(* (line 118), works in it, and deletes it on the success path (line 216). *)
(***************************************************************************)
otherVars == <<cursorVars, localVars, pc, calls, result, last_outcome,
               fetchVars, parseVars, timerVars, described>>

\* lines 108-114: job_name = self.generate_job_name()
ConnExecute(c) ==
    /\ running[c].pc = "idle"
    /\ \E time_ms \in 1..MaxTimeMs, rand \in 0..MaxRand :
         running' = [running EXCEPT ![c] =
                        [pc |-> "create_resource",
                         job_name |-> generate_job_name(time_ms, rand)]]
    /\ UNCHANGED <<resources, otherVars>>

\* line 118: create_resource(job_name, "files")
ConnCreateResource(c) ==
    /\ running[c].pc = "create_resource"
    /\ resources' = resources \cup {running[c].job_name}
    /\ running' = [running EXCEPT ![c].pc = "delete_resource"]
    /\ UNCHANGED otherVars

\* lines 120-217: upload, submit, run, poll and fetch in the namespace, then
\* delete_resource(job_name) and return
ConnDeleteResource(c) ==
    /\ running[c].pc = "delete_resource"
    /\ resources' = resources \ {running[c].job_name}
    /\ running' = [running EXCEPT ![c] = NoExecution]
    /\ UNCHANGED otherVars

\* an exception leaves execute: nothing is deleted
ConnRaise(c) ==
    /\ running[c].pc # "idle"
    /\ running' = [running EXCEPT ![c] = NoExecution]
    /\ UNCHANGED <<resources, otherVars>>

ConnNext ==
    \/ \E c \in Cursors : ConnExecute(c)
    \/ \E c \in Cursors : ConnCreateResource(c)
    \/ \E c \in Cursors : ConnDeleteResource(c)
    \/ \E c \in Cursors : ConnRaise(c)

ConnSpec == Init /\ [][ConnNext]_vars

(***************************************************************************)
(* AdapterTimer (adaptertimer.py): the registry _timers, a list shared by  *)
(* all instances, under start_timer and end_timer calls, each call one     *)
(* step.                                                                   *)
(***************************************************************************)
TimerNames == {"a", "b"}

\* get_timer(timer_name): the timers of that name
get_timer(timers, timer_name) ==
    SelectSeq(timers, LAMBDA timer : timer.name = timer_name)

\* has_timer = len(prev_timer) == 1
has_timerNever(prev_timer) == Len(prev_timer) > 1

has_timer(prev_timer) == Len(prev_timer) = 1

\* prev_timer[0] is an element of _timers: its position there
IndexOf(timers, timer_name) ==
    CHOOSE i \in 1..Len(timers) :
        /\ timers[i].name = timer_name
        /\ \A j \in 1..(i - 1) : timers[j].name # timer_name

nonTimerVars == <<cursorVars, localVars, pc, calls, result, last_outcome,
                  fetchVars, parseVars, connVars, described>>

\* start_timer (lines 19-32)
StartTimer ==
    /\ \E timer_name \in TimerNames, t \in now..MaxClock :
         /\ now' = t
         /\ IF has_timer(get_timer(_timers, timer_name))
            THEN LET i == IndexOf(_timers, timer_name)
                     reset == [_timers[i] EXCEPT !.start_time = t,
                                                 !.end_time = t]
                 IN /\ _timers' = [_timers EXCEPT ![i] = reset]
                    /\ timer_ret' = [op |-> "start_timer",
                                     name |-> timer_name, kind |-> "timer",
                                     timer |-> reset, elapsed |-> 0]
            ELSE LET new_timer == Timer(timer_name, t, t, 0)
                 IN /\ _timers' = Append(_timers, new_timer)
                    /\ timer_ret' = [op |-> "start_timer",
                                     name |-> timer_name, kind |-> "timer",
                                     timer |-> new_timer, elapsed |-> 0]
    /\ UNCHANGED nonTimerVars

\* end_timer (lines 34-44)
EndTimer ==
    /\ \E timer_name \in TimerNames, t \in now..MaxClock :
         IF has_timer(get_timer(_timers, timer_name))
         THEN LET i == IndexOf(_timers, timer_name)
                  elapsed_time == t - _timers[i].start_time
              IN /\ now' = t
                 /\ _timers' = [_timers EXCEPT
                                   ![i].end_time = t,
                                   ![i].elapsed_time = elapsed_time]
                 /\ timer_ret' = [op |-> "end_timer", name |-> timer_name,
                                  kind |-> "elapsed", timer |-> NoTimer,
                                  elapsed |-> elapsed_time]
         ELSE /\ timer_ret' = [op |-> "end_timer", name |-> timer_name,
                               kind |-> "None", timer |-> NoTimer,
                               elapsed |-> 0]
              /\ UNCHANGED <<_timers, now>>
    /\ UNCHANGED nonTimerVars

TimerNext ==
    \/ StartTimer
    \/ EndTimer

TimerSpec == Init /\ [][TimerNext]_vars

(***************************************************************************)
(* Vocabulary of the properties.                                           *)
(***************************************************************************)
\* the last execute has ended, by returning or by raising
Done == pc = "idle" /\ result.kind # "none"

\* how often this execute has made the call op
Count(op) == Cardinality({i \in 1..Len(calls) : calls[i].op = op})

\* how often this execute has made the call op for the name
CountFor(op, name) ==
    Cardinality({i \in 1..Len(calls) : calls[i].op = op /\ calls[i].name = name})

Fetches == Count("get_job_run_status")

\* a status fetch of this execute raised instead of returning a status
FetchRaised ==
    /\ Done
    /\ result.kind \in {"TransportError", "KeyError"}
    /\ calls # <<>>
    /\ calls[Len(calls)].op = "get_job_run_status"

\* the log fetch of this execute raised
LogFetchRaised ==
    /\ Done
    /\ result.kind = "TransportError"
    /\ calls # <<>>
    /\ calls[Len(calls)].op = "get_job_output"

\* C1: every execute that reached a terminal outcome (it returned after a
\* succeeded run, raised the database error of a failed run, or raised the
\* timeout) has attempted delete_job and delete_resource exactly once each
\* for its job name.
C1_CleanupOncePerTerminalOutcome ==
    (Done /\ result.kind \in {"returned", "DatabaseError", "RPCTimeoutException"})
        => /\ CountFor("delete_job", job_name) = 1
           /\ CountFor("delete_resource", job_name) = 1

\* C2: once the run succeeded and schema and rows are populated, execute
\* returns normally whatever the cleanup calls do.
C2_CleanupFailureKeepsOutcome ==
    (Done /\ terminal = "succeeded" /\ populated) => result = Returned

\* C3: a timeout is raised only with the accumulated wait at the ceiling and
\* a non-terminal status fetched last; a succeeded status never ends in a
\* timeout.
C3_TimeoutOnlyWhenNonTerminal ==
    /\ result.kind = "RPCTimeoutException"
           => /\ total_time_spent_in_get_job_status >= DEFAULT_CDE_JOB_TIMEOUT
              /\ job_status.status \notin Terminal
    /\ seen.succeeded => result.kind # "RPCTimeoutException"

\* C4: polling is bounded by 30 sleeps and 31 status fetches, and an execute
\* whose status fetches all returned non-terminal statuses ends by raising the
\* timeout carrying 900, after exactly 30 sleeps (accumulated wait 900) and 31
\* fetches.
C4_TimeoutAfterThirtySleeps ==
    /\ sleeps <= 30
    /\ Fetches <= 31
    /\ total_time_spent_in_get_job_status = sleeps * 30
    /\ (Done /\ Fetches >= 1 /\ ~seen.succeeded /\ ~seen.failed /\ ~FetchRaised)
           => /\ result = RPCTimeoutException(900)
              /\ sleeps = 30
              /\ Fetches = 31
              /\ total_time_spent_in_get_job_status = 900

\* C4 witness: an execute that only ever saw non-terminal statuses has timed out
C4_Witness ==
    /\ Done
    /\ result.kind = "RPCTimeoutException"
    /\ ~seen.succeeded
    /\ ~seen.failed
    /\ Fetches = 31

\* C5: an execute one of whose status fetches returned failed raises the
\* database error carrying that status payload and does not populate schema
\* and rows.
C5_FailedRaisesDatabaseError ==
    (Done /\ seen.failed)
        => /\ result = DatabaseError(job_status)
           /\ job_status.status = JOB_STATUS.failed
           /\ ~populated

\* C6: when non-terminal statuses are followed by succeeded before the
\* accumulated wait reaches the ceiling (and the log fetch returns), execute
\* does not raise, has fetched the stdout log exactly once, and schema and
\* rows are the parse of that log.
C6_SucceededPopulatesResult ==
    (/\ Done
     /\ seen.succeeded
     /\ ~seen.failed
     /\ seen.at < DEFAULT_CDE_JOB_TIMEOUT
     /\ ~LogFetchRaised)
        => /\ result = Returned
           /\ Count("get_job_output") = 1
           /\ _schema = Cursor(parse_query_result(ResLines(log_text)).schema)
           /\ _rows = Cursor(parse_query_result(ResLines(log_text)).rows)

\* C7: once the status just fetched is failed, execute neither sleeps the
\* poll interval nor fetches the status again.
C7_NoPollAfterFailed ==
    [][(pc # "idle" /\ job_status.status = JOB_STATUS.failed)
           => /\ sleeps' = sleeps
              /\ Cardinality({i \in 1..Len(calls') :
                                 calls'[i].op = "get_job_run_status"}) = Fetches]_vars

\* C8: after a failed status is observed, execute raises the database error
\* carrying the status payload even when the diagnostic log fetch fails.
C8_LogFetchFailureSwallowed ==
    (Done /\ terminal = "failed") => result = DatabaseError(job_status)

\* the calls execute makes before the polling loop
SetupOps == {"create_resource", "upload_resource", "submit_job", "run_job"}

\* C9: when create_resource, upload_resource, submit_job or run_job has
\* failed (network or HTTP), execute has raised: that call stays its last.
C9_SetupFailureAborts ==
    (/\ calls # <<>>
     /\ calls[Len(calls)].op \in SetupOps
     /\ last_outcome \in {"net_error", "http_error"})
        => /\ pc = "idle"
           /\ result.kind \notin {"none", "returned"}

\* the order of the remote calls up to the first status fetch
Lifecycle ==
    <<"create_resource", "upload_resource", "upload_resource", "submit_job",
      "run_job", "get_job_run_status">>

\* C10: the remote calls of one execute are create namespace, upload SQL
\* resource, upload wrapper resource, submit job, run job, first status fetch,
\* in this order; no call other than the status fetch is made twice.
C10_FixedCallOrder ==
    /\ \A i \in 1..Len(calls) :
          IF i <= Len(Lifecycle)
          THEN calls[i].op = Lifecycle[i] /\ calls[i].name = job_name
          ELSE calls[i].op \in {"get_job_run_status", "get_job_output",
                                "delete_job", "delete_resource"}
    /\ Len(calls) >= 2 => calls[2].file = sql_resource.file_name
                          /\ calls[2].file.ext = "sql"
    /\ Len(calls) >= 3 => calls[3].file = py_resource.file_name
                          /\ calls[3].file.ext = "py"
    /\ \A i, j \in 1..Len(calls) :
          (i # j /\ calls[i] = calls[j]) => calls[i].op = "get_job_run_status"
    /\ Fetches >= 1 =>
          /\ \A op \in {"create_resource", "submit_job", "run_job"} :
                 Count(op) = 1
          /\ Count("upload_resource") = 2

\* C10 witness: a whole execute that polled more than once and returned
C10_Witness ==
    /\ Done
    /\ result = Returned
    /\ Fetches >= 3
    /\ Count("delete_resource") = 1

(***************************************************************************)
(* Claims about the cursor's result (CursorSpec).                          *)
(***************************************************************************)
\* C11: in every state reachable by execute, fetchone, fetchall and close
\* calls, schema and rows are populated together: the cursor holds a schema
\* if and only if it holds a row list (a list of zero rows counts).
C11_PopulatedTogether == (_schema.st = "list") <=> (_rows.st = "list")

\* C12: after a successful execute, every row fetchall returns has exactly
\* as many values as the parsed header has columns.
C12_RowsMatchHeader ==
    (result = Returned /\ ret.op = "fetchall" /\ ret.kind = "list")
        => \A i \in 1..Len(ret.v) : Len(ret.v[i]) = Len(_schema.v)

(***************************************************************************)
(* Claims about the parse of the output.                                   *)
(***************************************************************************)
\* the data rows of a text as parse_query_result reads them, before any
\* conversion; <<>> when it returns before reading them
RawRows(lines) ==
    LET line_number == FirstSeparator(lines)
    IN IF line_number = Len(lines) THEN <<>>
       ELSE IF HeaderSchema(lines[line_number + 1]) = <<>> THEN <<>>
       ELSE DataRows(lines, line_number + 3)

\* the header columns of a text, <<>> when it has no header
RawHeader(lines) ==
    IF FirstSeparator(lines) = Len(lines) THEN <<>>
    ELSE HeaderSchema(lines[FirstSeparator(lines) + 1])

\* the types inferred from the first data row
FirstRowTypes(lines) ==
    [i \in 1..Len(RawRows(lines)[1]) |-> get_type(RawRows(lines)[1][i].v)]

\* type inference runs on the text: it has rows, as wide as the header
InferenceRuns(lines) ==
    /\ RawRows(lines) # <<>>
    /\ Len(RawRows(lines)[1]) = Len(RawHeader(lines))

\* inference succeeds on the first row and the conversion of a later row
\* raises
LaterRowFails(lines) ==
    /\ InferenceRuns(lines)
    /\ FirstBadRow(RawRows(lines), FirstRowTypes(lines)) > 1

\* C13: when a later row's value does not convert to the type inferred from
\* the first row, the failure leaves execute as an error and no rows are
\* stored on the cursor.
C13_ConversionFailureIsFatal ==
    LaterRowFails(ResLines(log_text))
        => /\ ~populated
           /\ pc = "idle" => result.kind \notin {"none", "returned"}

\* the rows of the result that fetchone has not returned yet
Remaining == SubSeq(stored, Len(fetched) + 1, Len(stored))

\* C14: on a result of N rows, the k-th fetchone call returns the k-th row
\* for k <= N, and every later call returns None.
C14_FetchOneInOrder ==
    [][(ret'.op = "fetchone" /\ _rows.st = "list")
          => IF Len(fetched) < Len(stored)
             THEN /\ ret'.kind = "row"
                  /\ ret'.v = <<stored[Len(fetched) + 1]>>
                  /\ fetched' = Append(fetched, stored[Len(fetched) + 1])
             ELSE /\ ret'.kind = "None"
                  /\ fetched' = fetched]_vars

\* C14 witness: the third fetchone on a result of two rows returned None
C14_Witness ==
    /\ Len(stored) = 2
    /\ fetched = stored
    /\ ret = Ret("fetchone", "None", <<>>)

\* C15 as stated: while the cursor is not closed, every fetchall returns all
\* the rows of the result, whatever calls preceded it.
C15_FetchAllReturnsAll ==
    (ret.op = "fetchall" /\ _rows.st = "list")
        => ret.kind = "list" /\ ret.v = stored

\* C15, amended: while the cursor is not closed, fetchall returns the rows
\* fetchone has not removed, in order (all of them when no fetchone
\* preceded it), and removes none.
C15_FetchAllReturnsRemaining ==
    [][(ret'.op = "fetchall" /\ _rows.st = "list")
          => /\ ret'.kind = "list"
             /\ ret'.v = Remaining
             /\ Len(fetched) = 0 => ret'.v = stored
             /\ UNCHANGED <<_rows, _schema, fetched, stored>>]_vars

\* C15 witness: a fetchall after one fetchone returned the second row alone
C15_Witness ==
    /\ Len(stored) = 2
    /\ Len(fetched) = 1
    /\ ret = Ret("fetchall", "list", <<stored[2]>>)
    /\ _rows = Cursor(<<stored[2]>>)

(***************************************************************************)
(* Claims about parse_query_result on its own (ParseSpec).                 *)
(***************************************************************************)
\* a letter in lower case
Lower(c) ==
    CASE c = "T" -> "t" [] c = "R" -> "r" [] c = "U" -> "u" [] c = "E" -> "e"
      [] c = "F" -> "f" [] c = "A" -> "a" [] c = "L" -> "l" [] c = "S" -> "s"
      [] OTHER -> c

\* the type the claim gives a first-row value
ClaimedType(x) ==
    LET low == [i \in 1..Len(x) |-> Lower(x[i])]
    IN IF x # <<>> /\ \A i \in 1..Len(x) : x[i] \in Numerics THEN "number"
       ELSE IF low \in {<<"t", "r", "u", "e">>, <<"f", "a", "l", "s", "e">>}
       THEN "boolean"
       ELSE "string"

\* the Python type of a value of a column type
PyType(type) ==
    CASE type = "number" -> "float" [] type = "boolean" -> "bool"
      [] type = "string" -> "str"

\* C16: each column is typed from the first data row's value: number when
\* numeric characters only, boolean when true / false in any letter case,
\* string otherwise; the type is in the schema and the first row is
\* converted; A|B|C with the row 1|true|x gives number, boolean, string and
\* the row [1.0, True, "x"].
C16_TypesFromFirstRow ==
    (parsed.done /\ InferenceRuns(res_lines) /\ ~LaterRowFails(res_lines))
        => /\ \A i \in 1..Len(RawHeader(res_lines)) :
                LET type == ClaimedType(RawRows(res_lines)[1][i].v)
                IN /\ parsed.schema[i].type = type
                   /\ parsed.rows[1][i].t = PyType(type)
           /\ res_lines = <<SeparatorLine, HeaderABC, SeparatorLine, Row1TrueX>>
                => /\ parsed.schema =
                        <<[name |-> <<"A">>, type |-> "number", nullable |-> FALSE],
                          [name |-> <<"B">>, type |-> "boolean", nullable |-> FALSE],
                          [name |-> <<"C">>, type |-> "string", nullable |-> FALSE]>>
                   /\ parsed.rows =
                        << <<[t |-> "float", v |-> <<"1", ".", "0">>],
                             [t |-> "bool", v |-> <<"True">>],
                             [t |-> "str", v |-> <<"x">>]>> >>

\* no line's trimmed content starts with "+-"
NoSeparator(lines) ==
    \A i \in 1..Len(lines) :
        LET line == Strip(lines[i])
        IN ~(Len(line) >= 2 /\ line[1] = "+" /\ line[2] = "-")

\* C17: a sequence of lines none of which starts with "+-" (the empty
\* sequence too) parses to an empty schema and no rows.
C17_NoSeparatorParsesEmpty ==
    (parsed.done /\ NoSeparator(res_lines))
        => parsed.schema = <<>> /\ parsed.rows = <<>>

\* C17 witness: lines with cells and without a separator were parsed
C17_Witness ==
    /\ parsed.done
    /\ NoSeparator(res_lines)
    /\ Len(res_lines) >= 2
    /\ \E i \in 1..Len(res_lines) : Cells(res_lines[i]) # <<>>

\* a separator, a header of at least one column, and after it nothing, or a
\* second separator followed by nothing but blank lines
HeaderOnlyTable(lines) ==
    LET k == FirstSeparator(lines)
    IN /\ ~NoSeparator(lines)
       /\ k < Len(lines)
       /\ ~IsSeparator(lines[k + 1])
       /\ Cells(lines[k + 1]) # <<>>
       /\ k + 2 <= Len(lines) => IsSeparator(lines[k + 2])
       /\ \A j \in (k + 3)..Len(lines) : Strip(lines[j]) = <<>>

\* C18: a text with a separator and a header of at least one column and no
\* data rows parses to a non-empty schema, every column a string, and no
\* rows.
C18_HeaderOnlyGivesNoRows ==
    (parsed.done /\ HeaderOnlyTable(res_lines))
        => /\ parsed.schema # <<>>
           /\ \A i \in 1..Len(parsed.schema) : parsed.schema[i].type = "string"
           /\ parsed.rows = <<>>

(***************************************************************************)
(* Claims about executes running at the same time (ConnSpec).              *)
(***************************************************************************)
\* C19: two executes in progress on different cursors never have the same
\* job name (resource namespace).
C19_DistinctJobNames ==
    \A c, d \in Cursors :
        (c # d /\ running[c].pc # "idle" /\ running[d].pc # "idle")
            => running[c].job_name # running[d].job_name

(***************************************************************************)
(* Claims about the submitted job spec (Spec).                             *)
(***************************************************************************)
\* C20: the job spec execute submits references exactly the two resources
\* it uploaded: its entry file is the wrapper's file name, its only extra
\* file is the SQL file's name, its single mount is the namespace both were
\* uploaded to, the wrapper opens the mount root plus the SQL file's name,
\* and the two file names differ.
C20_JobSpecReferencesUploads ==
    job_spec # NoJobSpec
        => /\ calls[1] = Call("create_resource", job_name, NoFile)
           /\ calls[2] = Call("upload_resource", job_name,
                              sql_resource.file_name)
           /\ calls[3] = Call("upload_resource", job_name,
                              py_resource.file_name)
           /\ job_spec.name = job_name
           /\ job_spec.spark.file = calls[3].file
           /\ job_spec.spark.files = <<calls[2].file>>
           /\ Len(job_spec.mounts) = 1
           /\ job_spec.mounts[1] =
                  [dirPrefix |-> "/", resourceName |-> calls[1].name]
           /\ py_resource.opens =
                  [dir |-> "/app/mount/", file_name |-> calls[2].file]
           /\ calls[2].file # calls[3].file

\* C20 witness: an execute that built both files in the same millisecond
\* has submitted its job and returned
C20_Witness ==
    /\ Done
    /\ result = Returned
    /\ job_spec # NoJobSpec
    /\ sql_resource.file_name.time_ms = py_resource.file_name.time_ms

(***************************************************************************)
(* Claims about the timer registry (TimerSpec).                            *)
(***************************************************************************)
\* the registry holds at most one timer per name
OnePerName(timers) ==
    \A i, j \in 1..Len(timers) : timers[i].name = timers[j].name => i = j

\* the registry has a timer of that name
Started(timers, timer_name) ==
    \E i \in 1..Len(timers) : timers[i].name = timer_name

\* C21: the registry holds at most one timer per name; start_timer on an
\* existing name resets that timer in place (start_time = end_time = now)
\* and adds no entry; end_timer on a never-started name returns None and
\* leaves the registry unchanged.
C21_OneTimerPerName ==
    [][/\ OnePerName(_timers')
       /\ (timer_ret'.op = "start_timer"
           /\ Started(_timers, timer_ret'.name))
            => /\ Len(_timers') = Len(_timers)
               /\ \A i \in 1..Len(_timers) :
                     IF _timers[i].name = timer_ret'.name
                     THEN /\ _timers'[i].name = _timers[i].name
                          /\ _timers'[i].start_time = now'
                          /\ _timers'[i].end_time = now'
                          /\ timer_ret'.timer = _timers'[i]
                     ELSE _timers'[i] = _timers[i]
       /\ (timer_ret'.op = "end_timer"
           /\ ~Started(_timers, timer_ret'.name))
            => /\ timer_ret'.kind = "None"
               /\ _timers' = _timers]_vars

\* C21 witness: a timer that had been ended was started again, beside
\* another timer
C21_Witness ==
    /\ Len(_timers) = 2
    /\ timer_ret.op = "start_timer"
    /\ \E i \in 1..2 :
          /\ _timers[i].name = timer_ret.name
          /\ _timers[i].elapsed_time > 0
          /\ _timers[i].start_time = now
          /\ _timers[i].end_time = now

(***************************************************************************)
(* Claims about the types of a parse (ParseSpec).                          *)
(***************************************************************************)
\* C22: whenever parse_query_result returns, every value of every returned
\* row has the type the schema records for its column (number = float,
\* boolean = bool, string = str).
C22_RowsAgreeWithSchema ==
    parsed.done
        => \A r \in 1..Len(parsed.rows) :
              \A i \in 1..Len(parsed.rows[r]) :
                  i <= Len(parsed.schema)
                      => parsed.rows[r][i].t = PyType(parsed.schema[i].type)

(***************************************************************************)
(* Claims about what execute does to the cursor (Spec).                    *)
(***************************************************************************)
\* C23: execute assigns the cursor's schema and rows only in the step after
\* a succeeded status in which the stdout log fetch returned and was
\* parsed; an execute that failed, timed out or raised before that step
\* has left them as they were.
C23_RaisingExecuteKeepsCursor ==
    /\ [][cursorVars' # cursorVars
            => /\ pc = "get_job_output"
               /\ job_status.status = JOB_STATUS.succeeded
               /\ last_outcome' # "net_error"
               /\ populated'
               /\ _rows' = Cursor(get_job_output(log_text').rows)
               /\ _schema' = Cursor(get_job_output(log_text').schema)]_vars
    /\ [](populated
            => /\ terminal = "succeeded"
               /\ Count("get_job_output") = 1
               /\ result.kind \notin {"DatabaseError", "RPCTimeoutException"})

\* C23 witness: an execute on a cursor that held rows ended with the
\* database error, without assigning, and the rows are still there
C23_Witness ==
    /\ Done
    /\ result.kind = "DatabaseError"
    /\ ~populated
    /\ _rows.st = "list"
    /\ _rows.v # <<>>
    /\ _rows.v = stored

(***************************************************************************)
(* Claims about a cursor that has not executed (CursorSpec).               *)
(***************************************************************************)
\* C24: on a cursor on which execute has never been called, description
\* returns the empty list and fetchone returns None; neither raises.
C24_FreshCursorReadsEmpty ==
    result = NoResult
        => /\ described.kind # "none" => described = [kind |-> "list", v |-> <<>>]
           /\ ret.op = "fetchone" => ret.kind = "None"

====
